---- MODULE Spec2Model ----
(***************************************************************************)
(* pyWinKeys: the script reader (scripts/script_reader.py), the script     *)
(* executor (scripts/script_executor.py), the string API it dispatches to  *)
(* (scripts/execution_api.py) and the part of the Windows backend the API  *)
(* calls (winkeys/winkeys.py).                                             *)
(*                                                                         *)
(* A Python str is a sequence of one-character strings.  Indices computed  *)
(* by str.find keep Python's 0-based values (and -1 for "not found"),      *)
(* because the reader compares them with 0; character k (0-based) of a     *)
(* string s is s[k + 1].                                                   *)
(***************************************************************************)
EXTENDS Integers, Sequences, FiniteSets, TLC

VARIABLES
    file,          \* the script file: does it exist, how many lines are left
    pc,            \* load_scripts: "start", "reading", "failed" (returned
                   \* None), "raised" (ValueError), "loaded" (returned scripts)
    line_n,        \* load_scripts: number of the line read last
    line,          \* load_scripts: the line read last, as read from the file
    temp,          \* load_scripts: that line after _remove_obsolete_characters
    s_name,        \* load_scripts: current script name, <<>> when none is open
    scripts,       \* load_scripts: the dict being built
    self_scripts,  \* ScriptExecutor.scripts: NoneValue or the dict returned
    epc,           \* executor: "none", "idle", "loop", "check", "call"
    script_name,   \* execute: its argument
    script,        \* _internal_execute: the list being walked
    idx,           \* _internal_execute: position of the for loop (1-based)
    result,        \* execute: "unset", "true", "false", "raised"
    trace,         \* what the current execute call did, in order
    n_calls,       \* execute calls made so far
    callers,       \* callers that share the executor: where each one's
                   \* execute call stands
    sent_inputs    \* what the callers' calls did, in the order it was done

vars == <<file, pc, line_n, line, temp, s_name, scripts, self_scripts, epc,
          script_name, script, idx, result, trace, n_calls, callers,
          sent_inputs>>

readerVars == <<file, pc, line_n, line, temp, s_name, scripts, self_scripts>>
runVars == <<script_name, script, idx, result, trace, n_calls>>
concVars == <<callers, sent_inputs>>

\* ------------------------------------------------------------------ bounds

\* Lines a script file holds at most.
MaxLines == 4
\* execute calls made on one executor at most.
MaxCalls == 2
\* Length of the body lines enumerated character by character (SpecLine).
MaxLineLen == 6
\* Length of the key parameters of press and write (SpecAPI).
MaxParamLen == 4
\* Length of each coordinate string of move (SpecAPI).
MaxCoordLen == 2
\* Whitespace characters put into a line (SpecWs).
MaxSpaces == 2
\* Callers that share one executor (SpecConc).
MaxCallers == 2
\* Steps the callers' calls take together at most (SpecConc).
MaxSent == 6

Callers == 1..MaxCallers
\* A caller that has not called execute.
Waiting == [cpc |-> "idle", name |-> <<>>, plan |-> <<>>, pos |-> 0,
            outcome |-> "unset", result |-> "unset"]

\* --------------------------------------------------------------- characters

QUOTE == "\""
BACKSLASH == "\\"
COMMA == ","
\* U+00B2 SUPERSCRIPT TWO, one character, written as a token.
SUP2 == "^2"

\* string.whitespace (the vertical tab, which has no TLA+ escape, is left out).
whitespace == {" ", "\t", "\n", "\r", "\f"}

\* The characters '0'..'9' and their values.
DecimalDigits == {"0", "1", "2", "3", "4", "5", "6", "7", "8", "9"}

DigitValue(c) ==
    CASE c = "0" -> 0 [] c = "1" -> 1 [] c = "2" -> 2 [] c = "3" -> 3
      [] c = "4" -> 4 [] c = "5" -> 5 [] c = "6" -> 6 [] c = "7" -> 7
      [] c = "8" -> 8 [] c = "9" -> 9

\* Characters for which str.isdigit() is true: the decimal digits and the
\* digit-like characters that are no decimal digit, such as the superscript
\* two, for which int() raises ValueError.
IsDigitChars == DecimalDigits \cup {SUP2}

\* An Optional value: None is the empty tuple, a value v is <<v>>.
NoneValue == <<>>
Some(v) == <<v>>

Min(S) == CHOOSE x \in S : \A y \in S : x <= y

\* ------------------------------------------------------------------- names

PRESS == <<"p", "r", "e", "s", "s">>
WRITE == <<"w", "r", "i", "t", "e">>
MOVE == <<"m", "o", "v", "e">>
HOLD_MOUSE == <<"h", "o", "l", "d", "_", "m", "o", "u", "s", "e">>
RELEASE_MOUSE == <<"r", "e", "l", "e", "a", "s", "e", "_", "m", "o", "u", "s", "e">>
CTRL_KEY == <<"c", "t", "r", "l">>
ALT_KEY == <<"a", "l", "t">>
RIGHT_NAME == <<"r", "i", "g", "h", "t">>
MIDDLE_NAME == <<"m", "i", "d", "d", "l", "e">>
LEFT_NAME == <<"l", "e", "f", "t">>

\* ------------------------------------------------------------ str built-ins

\* s.isdigit(): at least one character, and all of them digits.
IsDigit(s) == Len(s) > 0 /\ \A k \in 1..Len(s) : s[k] \in IsDigitChars

\* int(s) for a string with s.isdigit(): it raises ValueError unless every
\* character is a decimal digit, and gives the decimal value otherwise.
IntRaises(s) == \E k \in 1..Len(s) : s[k] \notin DecimalDigits

RECURSIVE IntValue(_, _)
IntValue(s, acc) ==
    IF s = <<>> THEN acc
    ELSE IntValue(Tail(s), acc * 10 + DigitValue(Head(s)))

\* int() that adds the digits up.
RECURSIVE DigitSum(_)
DigitSum(s) == IF s = <<>> THEN 0 ELSE DigitValue(Head(s)) + DigitSum(Tail(s))

ToIntDigitSum(s) == DigitSum(s)

ToInt(s) == IntValue(s, 0)

\* s.find(ch, start): the lowest 0-based index >= start holding ch, or -1.
Find(s, ch, start) ==
    LET hits == {k \in start..(Len(s) - 1) : s[k + 1] = ch}
    IN  IF hits = {} THEN -1 ELSE Min(hits)

\* s[from:to] for 0 <= from, 0 <= to.
Slice(s, from, to) == SubSeq(s, from + 1, to)

\* s.split(sep) for a one-character sep: always at least one field.
RECURSIVE SplitFrom(_, _, _, _)
SplitFrom(s, sep, cur, out) ==
    IF s = <<>> THEN Append(out, cur)
    ELSE IF Head(s) = sep
         THEN SplitFrom(Tail(s), sep, <<>>, Append(out, cur))
         ELSE SplitFrom(Tail(s), sep, Append(cur, Head(s)), out)

Split(s, sep) == SplitFrom(s, sep, <<>>, <<>>)

\* ------------------------------------------------------------ ScriptReader

TAG == <<"-", "-", "-">>

\* ScriptReader._contains_prefix
_contains_prefix(prefix, l) ==
    IF Len(prefix) > Len(l) \/ Len(l) = 0 THEN FALSE
    ELSE \A i \in 1..Len(prefix) : prefix[i] = l[i]

\* ScriptReader._remove_obsolete_characters: the loop from position i on,
\* with the loop's found flag and the output built so far.
RECURSIVE RemoveLoop(_, _, _, _, _, _)
RemoveLoop(mark_char, rm_chars, l, i, found, output) ==
    IF i > Len(l) THEN output
    ELSE LET toggled == IF l[i] = mark_char /\ i # 1 /\ l[i - 1] # BACKSLASH
                        THEN ~found ELSE found
         IN  RemoveLoop(mark_char, rm_chars, l, i + 1, toggled,
                        IF toggled \/ l[i] \notin rm_chars
                        THEN Append(output, l[i]) ELSE output)

\* _remove_obsolete_characters that removes nothing.
KeepObsoleteCharacters(mark_char, rm_chars, l) == l

_remove_obsolete_characters(mark_char, rm_chars, l) ==
    RemoveLoop(mark_char, rm_chars, l, 1, FALSE, <<>>)

\* The four indices load_scripts computes for a body line.
first_split(t) == Find(t, COMMA, 0)
second_split(t) == Find(t, COMMA, first_split(t) + 1)
\* first_param looking for the quote from the start of the line.
first_paramFromStart(t) == Find(t, QUOTE, 0)

first_param(t) == Find(t, QUOTE, second_split(t) + 1)

\* second_param that passes over a quote a backslash stands before.
second_paramUnescaped(t) ==
    LET hits == {k \in (first_param(t) + 1)..(Len(t) - 1) :
                   t[k + 1] = QUOTE /\ t[k] # BACKSLASH}
    IN  IF hits = {} THEN -1 ELSE Min(hits)

second_param(t) == Find(t, QUOTE, first_param(t) + 1)

\* load_scripts: the "invalid split indexes" test.
InvalidSplit(t) ==
    \/ first_split(t) <= 0 \/ second_split(t) <= 0
    \/ first_param(t) <= 0 \/ second_param(t) <= 0
    \/ second_split(t) <= first_split(t)
    \/ first_param(t) <= second_split(t)
    \/ second_param(t) <= first_param(t)

delay_str(t) == Slice(t, 0, first_split(t))
cmd_str(t) == Slice(t, first_split(t) + 1, second_split(t))
param_str(t) == Slice(t, first_param(t) + 1, second_param(t))

\* ErrorReturn giving back what was parsed so far.
ErrorReturnPartial(table) == Some(table)

\* What load_scripts returns when a line is in error.
ErrorReturn(table) == NoneValue

\* A dict with one more key, or one key's value replaced.
DictSet(d, k, v) == [x \in (DOMAIN d) \cup {k} |-> IF x = k THEN v ELSE d[x]]

\* What one pass of the loop leaves behind: where load_scripts is, and its
\* locals.  load_scripts leaves the loop: how is "failed" (it returns None)
\* or "raised" (int() raised ValueError).
Abort(l, t, name, how) ==
    [pc |-> how, line |-> l, temp |-> t, s_name |-> name, scripts |-> scripts]

\* load_scripts goes on to the next line.
Continue(l, t, name, table) ==
    [pc |-> "reading", line |-> l, temp |-> t, s_name |-> name, scripts |-> table]

\* OpenTag without its test for a name the dict holds already.
OpenTagNoDuplicateTest(l, t) ==
    IF _contains_prefix(TAG, t)
    THEN IF Len(t) < 4
         THEN Abort(l, t, s_name, "failed")
         ELSE Continue(l, t, Slice(t, 3, Len(t)),
                       DictSet(scripts, Slice(t, 3, Len(t)), <<>>))
    ELSE Continue(l, t, s_name, scripts)

\* OpenTag where a line without the prefix is read as a command line of no
\* script, an error.
OpenTagOrError(l, t) ==
    IF _contains_prefix(TAG, t)
    THEN IF Len(t) < 4
         THEN Abort(l, t, s_name, "failed")
         ELSE IF Slice(t, 3, Len(t)) \in DOMAIN scripts
              THEN Abort(l, t, Slice(t, 3, Len(t)), "failed")
              ELSE Continue(l, t, Slice(t, 3, Len(t)),
                            DictSet(scripts, Slice(t, 3, Len(t)), <<>>))
    ELSE IF Len(t) = 0 THEN Continue(l, t, s_name, scripts)
         ELSE Abort(l, t, s_name, "failed")

\* load_scripts, outside a script: a line with the prefix opens one.
OpenTag(l, t) ==
    IF _contains_prefix(TAG, t)
    THEN IF Len(t) < 4
         THEN Abort(l, t, s_name, "failed")
         ELSE IF Slice(t, 3, Len(t)) \in DOMAIN scripts
              THEN Abort(l, t, Slice(t, 3, Len(t)), "failed")
              ELSE Continue(l, t, Slice(t, 3, Len(t)),
                            DictSet(scripts, Slice(t, 3, Len(t)), <<>>))
    ELSE Continue(l, t, s_name, scripts)

\* load_scripts, inside a script: a line that is no comment and no tag.
BodyLine(l, t) ==
    IF InvalidSplit(t)
    THEN Abort(l, t, s_name, "failed")
    ELSE IF ~IsDigit(delay_str(t))
         THEN Abort(l, t, s_name, "failed")
         ELSE IF IntRaises(delay_str(t))
              THEN Abort(l, t, s_name, "raised")
              ELSE Continue(l, t, s_name,
                            DictSet(scripts, s_name,
                                    Append(scripts[s_name],
                                           <<ToInt(delay_str(t)), cmd_str(t), param_str(t)>>)))

\* InScript where a tag line inside a script opens the script it names.
InScriptReopen(l, t) ==
    IF Len(t) = 0 \/ t[1] \in {"#", "%"}
    THEN Continue(l, t, s_name, scripts)
    ELSE IF _contains_prefix(TAG, t)
         THEN OpenTag(l, t)
         ELSE BodyLine(l, t)

\* InScript where only the empty line is ignored.
InScriptNoComment(l, t) ==
    IF Len(t) = 0
    THEN Continue(l, t, s_name, scripts)
    ELSE IF _contains_prefix(TAG, t)
         THEN Continue(l, t, <<>>, scripts)
         ELSE BodyLine(l, t)

\* load_scripts, inside a script.
InScript(l, t) ==
    IF Len(t) = 0 \/ t[1] \in {"#", "%"}
    THEN Continue(l, t, s_name, scripts)
    ELSE IF _contains_prefix(TAG, t)
         THEN Continue(l, t, <<>>, scripts)
         ELSE BodyLine(l, t)

\* The body of load_scripts' loop applied to the line l.
LoopBody(l) ==
    LET t == _remove_obsolete_characters(QUOTE, whitespace, l)
    IN  IF s_name = <<>> THEN OpenTag(l, t) ELSE InScript(l, t)

\* One pass of load_scripts' loop, for the line l.  When load_scripts
\* returns None the executor is built and holds None; when int() raises, the
\* constructor raises and no executor exists.
ReadLine(l) ==
    /\ pc = "reading"
    /\ file.remaining > 0
    /\ LET r == LoopBody(l)
       IN  /\ pc' = r.pc
           /\ line' = r.line
           /\ temp' = r.temp
           /\ s_name' = r.s_name
           /\ scripts' = r.scripts
           /\ self_scripts' = IF r.pc = "failed" THEN ErrorReturn(scripts)
                              ELSE self_scripts
           /\ epc' = IF r.pc = "failed" THEN "idle" ELSE epc
    /\ line_n' = line_n + 1
    /\ file' = [file EXCEPT !.remaining = @ - 1]
    /\ UNCHANGED runVars
    /\ UNCHANGED concVars

\* ScriptExecutor.__init__ calls load_scripts: os.path.isfile, then open.
OpenFile ==
    /\ pc = "start"
    /\ IF file.exists
       THEN /\ pc' = "reading"
            /\ UNCHANGED <<self_scripts, epc>>
       ELSE /\ pc' = "failed"
            /\ self_scripts' = NoneValue
            /\ epc' = "idle"
    /\ UNCHANGED <<file, line_n, line, temp, s_name, scripts>>
    /\ UNCHANGED runVars
    /\ UNCHANGED concVars

\* EndOfFile where a script that is still open is an error.
EndOfFileOpenFails ==
    /\ pc = "reading"
    /\ file.remaining = 0
    /\ pc' = IF s_name = <<>> THEN "loaded" ELSE "failed"
    /\ self_scripts' = IF s_name = <<>> THEN Some(scripts) ELSE NoneValue
    /\ epc' = "idle"
    /\ UNCHANGED <<file, line_n, line, temp, s_name, scripts>>
    /\ UNCHANGED runVars
    /\ UNCHANGED concVars

\* The file's lines are used up: load_scripts returns scripts.
EndOfFile ==
    /\ pc = "reading"
    /\ file.remaining = 0
    /\ pc' = "loaded"
    /\ self_scripts' = Some(scripts)
    /\ epc' = "idle"
    /\ UNCHANGED <<file, line_n, line, temp, s_name, scripts>>
    /\ UNCHANGED runVars
    /\ UNCHANGED concVars

\* ------------------------------------------------------------- winkeys.py

\* timeout: the hold time of a press, in ms.
timeout == 5

MOUSE_EVENT_COORDINATES == 65535

\* The primary monitor's size, as refresh_monitor_size read it.
_SCREEN_WIDTH_PX == 2
_SCREEN_HEIGHT_PX == 2
_SCREEN_X_MULTIPLIER == MOUSE_EVENT_COORDINATES \div _SCREEN_WIDTH_PX
_SCREEN_Y_MULTIPLIER == MOUSE_EVENT_COORDINATES \div _SCREEN_HEIGHT_PX

\* _win_key, cut down to the keys the scripts of this model name.
_win_key ==
    (<<"0">> :> 48) @@ (<<"1">> :> 49) @@ (<<"2">> :> 50)
    @@ (<<"a">> :> 65) @@ (<<"b">> :> 66) @@ (<<"c">> :> 67)
    @@ (<<"A">> :> 65) @@ (<<"B">> :> 66) @@ (<<"C">> :> 67)
    @@ (CTRL_KEY :> 17) @@ (ALT_KEY :> 18)

\* One entry of what an execute call did.  kind is "sleep" (the executor's
\* delay, x ms), "call" and "ret" (a handler was called with args, returned
\* val), or an input event the backend sent: "key_hold" and "key_release"
\* (x the key code), "mouse_move" (x, y the scaled coordinates), "mouse_hold"
\* and "mouse_release" (name the button), "wait" (the backend's _sleep, x ms).
Ev(kind, i, name, args, val, x, y) ==
    [kind |-> kind, idx |-> i, name |-> name, args |-> args, val |-> val,
     x |-> x, y |-> y]

KeyEv(kind, code) == Ev(kind, 0, <<>>, <<>>, "", code, 0)
WaitEv == Ev("wait", 0, <<>>, <<>>, "", timeout, 0)
MouseEv(kind, btn) == Ev(kind, 0, btn, <<>>, "", 0, 0)

\* What a handler did: the events it sent, and "true", "false", "none" (a
\* bare return) or "raised" (an exception left the handler).
Done(events, ret) == [events |-> events, ret |-> ret]

\* mouse_move(x, y, False)
mouse_move(x, y) ==
    IF x < 0 \/ x > _SCREEN_WIDTH_PX \/ y < 0 \/ y > _SCREEN_HEIGHT_PX
    THEN Done(<<>>, "false")
    ELSE Done(<<Ev("mouse_move", 0, <<>>, <<>>, "",
                   x * _SCREEN_X_MULTIPLIER, y * _SCREEN_Y_MULTIPLIER)>>, "true")

MouseKeys == {"RIGHT_BUTTON", "LEFT_BUTTON", "MIDDLE_BUTTON"}

\* mouse_hold, mouse_release
mouse_hold(mouse_btn) ==
    IF mouse_btn \in MouseKeys
    THEN Done(<<MouseEv("mouse_hold", mouse_btn)>>, "true")
    ELSE Done(<<>>, "false")

mouse_release(mouse_btn) ==
    IF mouse_btn \in MouseKeys
    THEN Done(<<MouseEv("mouse_release", mouse_btn)>>, "true")
    ELSE Done(<<>>, "false")

\* keyboard_press
keyboard_press(key) ==
    IF key \notin DOMAIN _win_key
    THEN Done(<<>>, "false")
    ELSE Done(<<KeyEv("key_hold", _win_key[key]), WaitEv,
                KeyEv("key_release", _win_key[key])>>, "true")

\* reversed() that keeps the order.
ReverseSame(s) == s

\* reversed()
Reverse(s) == [k \in 1..Len(s) |-> s[Len(s) + 1 - k]]

\* s.replace(c, "")
Without(s, c) == SelectSeq(s, LAMBDA ch : ch # c)

\* ResolveKeys without the test for a key code that was handled already.
RECURSIVE ResolveKeysNoRepeatTest(_, _, _)
ResolveKeysNoRepeatTest(keys, handled_keys, key_codes) ==
    IF keys = <<>> THEN Some(key_codes)
    ELSE IF Head(keys) \notin DOMAIN _win_key
         THEN NoneValue
         ELSE ResolveKeysNoRepeatTest(Tail(keys), handled_keys,
                                      Append(key_codes, _win_key[Head(keys)]))

\* keyboard_press_combo: the loop that resolves the keys.  It gives the key
\* codes in order, or NoneValue when a key is unknown or handled already.
RECURSIVE ResolveKeys(_, _, _)
ResolveKeys(keys, handled_keys, key_codes) ==
    IF keys = <<>> THEN Some(key_codes)
    ELSE IF Head(keys) \notin DOMAIN _win_key
            \/ _win_key[Head(keys)] \in handled_keys
         THEN NoneValue
         ELSE ResolveKeys(Tail(keys), handled_keys \cup {_win_key[Head(keys)]},
                          Append(key_codes, _win_key[Head(keys)]))

keyboard_press_combo(key_set) ==
    LET keys == Split(Without(key_set, " "), "+")
        resolved == ResolveKeys(keys, {}, <<>>)
    IN  IF resolved = NoneValue
        THEN Done(<<>>, "false")
        ELSE LET key_codes == resolved[1]
             IN  Done([k \in 1..Len(key_codes) |-> KeyEv("key_hold", key_codes[k])]
                      \o <<WaitEv>>
                      \o [k \in 1..Len(key_codes) |->
                            KeyEv("key_release", Reverse(key_codes)[k])],
                      "true")

\* ------------------------------------------------------------ ExecutionAPI

\* ExecutionAPI.press
press(sequence) == keyboard_press_combo(sequence)

\* WriteLoop that goes on after a character that could not be pressed.
RECURSIVE WriteLoopSkip(_, _)
WriteLoopSkip(sequence, events) ==
    IF sequence = <<>> THEN Done(events, "true")
    ELSE WriteLoopSkip(Tail(sequence),
                       events \o keyboard_press(<<Head(sequence)>>).events)

\* ExecutionAPI.write: the loop over the characters still to write.
RECURSIVE WriteLoop(_, _)
WriteLoop(sequence, events) ==
    IF sequence = <<>> THEN Done(events, "true")
    ELSE LET r == keyboard_press(<<Head(sequence)>>)
         IN  IF r.ret # "true"
             THEN Done(events \o r.events, "false")
             ELSE WriteLoop(Tail(sequence), events \o r.events)

write(sequence) == WriteLoop(sequence, <<>>)

\* ExecutionAPI.move
move(x, y) ==
    IF ~IsDigit(x) \/ ~IsDigit(y)
    THEN Done(<<>>, "none")
    ELSE IF IntRaises(x) \/ IntRaises(y)
         THEN Done(<<>>, "raised")
         ELSE mouse_move(ToInt(x), ToInt(y))

LowerMap ==
    ("A" :> "a") @@ ("B" :> "b") @@ ("C" :> "c") @@ ("D" :> "d") @@ ("E"
    :> "e") @@ ("F" :> "f") @@ ("G" :> "g") @@ ("H" :> "h") @@ ("I" :>
    "i") @@ ("J" :> "j") @@ ("K" :> "k") @@ ("L" :> "l") @@ ("M" :> "m")
    @@ ("N" :> "n") @@ ("O" :> "o") @@ ("P" :> "p") @@ ("Q" :> "q") @@
    ("R" :> "r") @@ ("S" :> "s") @@ ("T" :> "t") @@ ("U" :> "u") @@ ("V"
    :> "v") @@ ("W" :> "w") @@ ("X" :> "x") @@ ("Y" :> "y") @@ ("Z" :>
    "z")

\* str.lower() that leaves every letter as it is.
LowerSame(s) == s

\* str.lower()
Lower(s) == [k \in 1..Len(s) |->
               IF s[k] \in DOMAIN LowerMap THEN LowerMap[s[k]] ELSE s[k]]

\* hold_mouse and release_mouse: the button a key names, if any.
key_code(key) ==
    IF Lower(key) = RIGHT_NAME THEN Some("RIGHT_BUTTON")
    ELSE IF Lower(key) = MIDDLE_NAME THEN Some("MIDDLE_BUTTON")
    ELSE IF Lower(key) = LEFT_NAME THEN Some("LEFT_BUTTON")
    ELSE NoneValue

\* ExecutionAPI.hold_mouse
hold_mouse(key) ==
    IF key_code(key) = NoneValue THEN Done(<<>>, "false")
    ELSE mouse_hold(key_code(key)[1])

\* ExecutionAPI.release_mouse
release_mouse(key) ==
    IF key_code(key) = NoneValue THEN Done(<<>>, "false")
    ELSE mouse_release(key_code(key)[1])

\* ---------------------------------------------------------- ScriptExecutor

\* _commands with move taking one parameter.
_commandsMoveOne ==
    (PRESS :> 1) @@ (WRITE :> 1) @@ (MOVE :> 1)
    @@ (HOLD_MOUSE :> 1) @@ (RELEASE_MOUSE :> 1)

\* ScriptExecutor._commands: the parameter count of each command.
_commands ==
    (PRESS :> 1) @@ (WRITE :> 1) @@ (MOVE :> 2)
    @@ (HOLD_MOUSE :> 1) @@ (RELEASE_MOUSE :> 1)

\* ScriptExecutor._commands: the handler of each command, applied to
\* *parameters; Python raises TypeError when their number is not the number
\* of the handler's arguments.
CallHandler(name, parameters) ==
    CASE name = PRESS /\ Len(parameters) = 1 -> press(parameters[1])
      [] name = WRITE /\ Len(parameters) = 1 -> write(parameters[1])
      [] name = MOVE /\ Len(parameters) = 2 -> move(parameters[1], parameters[2])
      [] name = HOLD_MOUSE /\ Len(parameters) = 1 -> hold_mouse(parameters[1])
      [] name = RELEASE_MOUSE /\ Len(parameters) = 1 -> release_mouse(parameters[1])
      [] OTHER -> Done(<<>>, "raised")

\* execute returns.
Return(value) ==
    /\ result' = value
    /\ epc' = "idle"

\* NotLoaded without its test of the name.
NotLoadedNoNameTest(name) ==
    \/ self_scripts = NoneValue
    \/ DOMAIN self_scripts[1] = {}

\* execute: "not self.scripts or script_name not in self.scripts.keys()".
NotLoaded(name) ==
    \/ self_scripts = NoneValue
    \/ DOMAIN self_scripts[1] = {}
    \/ name \notin DOMAIN self_scripts[1]

\* ScriptExecutor.execute(name): the test of the table, then the loop over
\* self.scripts[script_name], a lookup that raises when there is no such key.
Execute(name) ==
    /\ epc = "idle"
    /\ n_calls < MaxCalls
    /\ n_calls' = n_calls + 1
    /\ script_name' = name
    /\ trace' = <<>>
    /\ IF NotLoaded(name)
       THEN /\ Return("false")
            /\ script' = <<>>
            /\ idx' = 0
       ELSE IF self_scripts = NoneValue \/ name \notin DOMAIN self_scripts[1]
            THEN /\ Return("raised")
                 /\ script' = <<>>
                 /\ idx' = 0
            ELSE /\ script' = self_scripts[1][name]
                 /\ idx' = 1
                 /\ epc' = "loop"
                 /\ result' = "unset"
    /\ UNCHANGED readerVars
    /\ UNCHANGED concVars

\* _internal_execute: the head of the for loop, the size test and the sleep.
Sleep ==
    /\ epc = "loop"
    /\ IF idx > Len(script)
       THEN Return("true") /\ UNCHANGED trace
       ELSE IF Len(script[idx]) # 3
            THEN Return("false") /\ UNCHANGED trace
            ELSE /\ trace' = Append(trace, Ev("sleep", idx, <<>>, <<>>, "",
                                              script[idx][1], 0))
                 /\ epc' = "check"
                 /\ UNCHANGED result
    /\ UNCHANGED <<script_name, script, idx, n_calls>>
    /\ UNCHANGED readerVars
    /\ UNCHANGED concVars

\* _internal_execute: is the command known, and has it the right number of
\* parameters.
Validate ==
    /\ epc = "check"
    /\ IF script[idx][2] \notin DOMAIN _commands
       THEN Return("false")
       ELSE IF Len(Split(script[idx][3], COMMA)) # _commands[script[idx][2]]
            THEN Return("false")
            ELSE epc' = "call" /\ UNCHANGED result
    /\ UNCHANGED <<script_name, script, idx, trace, n_calls>>
    /\ UNCHANGED readerVars
    /\ UNCHANGED concVars

\* Invoke with the delay of the command slept once more after its handler.
InvokePostDelay ==
    /\ epc = "call"
    /\ LET parameters == Split(script[idx][3], COMMA)
           h == CallHandler(script[idx][2], parameters)
           call == Ev("call", idx, script[idx][2], parameters, "", 0, 0)
       IN  IF h.ret = "raised"
           THEN /\ trace' = trace \o <<call>> \o h.events
                /\ Return("raised")
                /\ UNCHANGED idx
           ELSE /\ trace' = trace \o <<call>> \o h.events
                             \o <<Ev("ret", idx, <<>>, <<>>, h.ret, 0, 0),
                                  Ev("sleep", idx, <<>>, <<>>, "", script[idx][1], 0)>>
                /\ idx' = idx + 1
                /\ epc' = "loop"
                /\ UNCHANGED result
    /\ UNCHANGED <<script_name, script, n_calls>>
    /\ UNCHANGED readerVars
    /\ UNCHANGED concVars

\* Invoke that takes the command it has run out of the table.
InvokeConsume ==
    /\ epc = "call"
    /\ LET parameters == Split(script[idx][3], COMMA)
           h == CallHandler(script[idx][2], parameters)
           call == Ev("call", idx, script[idx][2], parameters, "", 0, 0)
       IN  IF h.ret = "raised"
           THEN /\ trace' = trace \o <<call>> \o h.events
                /\ Return("raised")
                /\ UNCHANGED idx
           ELSE /\ trace' = trace \o <<call>> \o h.events
                             \o <<Ev("ret", idx, <<>>, <<>>, h.ret, 0, 0)>>
                /\ idx' = idx + 1
                /\ epc' = "loop"
                /\ UNCHANGED result
    /\ self_scripts' = Some([self_scripts[1] EXCEPT ![script_name] = Tail(@)])
    /\ UNCHANGED <<script_name, script, n_calls>>
    /\ UNCHANGED <<file, pc, line_n, line, temp, s_name, scripts>>
    /\ UNCHANGED concVars

\* _internal_execute: the handler runs with the split parameters; its return
\* value is dropped, an exception it raises leaves execute.
Invoke ==
    /\ epc = "call"
    /\ LET parameters == Split(script[idx][3], COMMA)
           h == CallHandler(script[idx][2], parameters)
           call == Ev("call", idx, script[idx][2], parameters, "", 0, 0)
       IN  IF h.ret = "raised"
           THEN /\ trace' = trace \o <<call>> \o h.events
                /\ Return("raised")
                /\ UNCHANGED idx
           ELSE /\ trace' = trace \o <<call>> \o h.events
                             \o <<Ev("ret", idx, <<>>, <<>>, h.ret, 0, 0)>>
                /\ idx' = idx + 1
                /\ epc' = "loop"
                /\ UNCHANGED result
    /\ UNCHANGED <<script_name, script, n_calls>>
    /\ UNCHANGED readerVars
    /\ UNCHANGED concVars

\* _internal_execute(script) as a whole, from command i on: what it does, in
\* order, and how it ends. Each caller of execute walks the list in a frame
\* of its own.
RECURSIVE InternalExecuteFrom(_, _, _)
InternalExecuteFrom(commands, i, events) ==
    IF i > Len(commands) THEN Done(events, "true")
    ELSE IF Len(commands[i]) # 3 THEN Done(events, "false")
    ELSE LET slept == Append(events, Ev("sleep", i, <<>>, <<>>, "",
                                        commands[i][1], 0))
         IN  IF commands[i][2] \notin DOMAIN _commands
             THEN Done(slept, "false")
             ELSE LET parameters == Split(commands[i][3], COMMA)
                      h == CallHandler(commands[i][2], parameters)
                      call == Ev("call", i, commands[i][2], parameters, "", 0, 0)
                  IN  IF Len(parameters) # _commands[commands[i][2]]
                      THEN Done(slept, "false")
                      ELSE IF h.ret = "raised"
                      THEN Done(slept \o <<call>> \o h.events, "raised")
                      ELSE InternalExecuteFrom(commands, i + 1,
                               slept \o <<call>> \o h.events
                               \o <<Ev("ret", i, <<>>, <<>>, h.ret, 0, 0)>>)

_internal_execute(commands) == InternalExecuteFrom(commands, 1, <<>>)

\* execute(script_name) as a whole.
execute(name) ==
    IF NotLoaded(name) THEN Done(<<>>, "false")
    ELSE _internal_execute(self_scripts[1][name])

\* A caller calls execute(name) on the shared executor.
ConcExecute(t, name) ==
    /\ epc = "idle"
    /\ callers[t].cpc = "idle"
    /\ callers' = [callers EXCEPT ![t] =
                     [cpc |-> "run", name |-> name,
                      plan |-> execute(name).events, pos |-> 1,
                      outcome |-> execute(name).ret, result |-> "unset"]]
    /\ UNCHANGED sent_inputs
    /\ UNCHANGED <<readerVars, epc, runVars>>

\* ConcStep under a lock around execute: a caller waits while the call of
\* another one is under way.
ConcStepLocked(t) ==
    /\ callers[t].cpc = "run"
    /\ \A u \in Callers \ {t} :
         ~(callers[u].cpc = "run" /\ callers[u].pos > 1)
    /\ IF callers[t].pos > Len(callers[t].plan)
       THEN /\ callers' = [callers EXCEPT ![t].cpc = "done",
                                          ![t].result = callers[t].outcome]
            /\ UNCHANGED sent_inputs
       ELSE /\ Len(sent_inputs) < MaxSent
            /\ sent_inputs' = Append(sent_inputs,
                   [caller |-> t, ev |-> callers[t].plan[callers[t].pos]])
            /\ callers' = [callers EXCEPT ![t].pos = @ + 1]
    /\ UNCHANGED <<readerVars, epc, runVars>>

\* The call of a caller takes its next step (a sleep, a handler call, one
\* SendInput, a handler's return), or returns. Nothing in execute,
\* _internal_execute, the handlers or winkeys takes a lock or waits for
\* another call.
ConcStep(t) ==
    /\ callers[t].cpc = "run"
    /\ IF callers[t].pos > Len(callers[t].plan)
       THEN /\ callers' = [callers EXCEPT ![t].cpc = "done",
                                          ![t].result = callers[t].outcome]
            /\ UNCHANGED sent_inputs
       ELSE /\ Len(sent_inputs) < MaxSent
            /\ sent_inputs' = Append(sent_inputs,
                   [caller |-> t, ev |-> callers[t].plan[callers[t].pos]])
            /\ callers' = [callers EXCEPT ![t].pos = @ + 1]
    /\ UNCHANGED <<readerVars, epc, runVars>>

\* ------------------------------------------------------------------ inputs

\* The lines a script file is made of.
Lines == {
    \* ---A\n
    <<"-", "-", "-", "A", "\n">>,
    \* --- B \n
    <<"-", "-", "-", " ", "B", " ", "\n">>,
    \* ---\n
    <<"-", "-", "-", "\n">>,
    \* # c\n
    <<"#", " ", "c", "\n">>,
    \* % a\n
    <<"%", " ", "a", "\n">>,
    \* a line of one space
    <<" ", "\n">>,
    \* 0,press,"a"\n
    <<"0", ",", "p", "r", "e", "s", "s", ",", "\"", "a", "\"", "\n">>,
    \*  5 , move , "1,2" \n
    <<" ", "5", " ", ",", " ", "m", "o", "v", "e", " ", ",", " ", "\"", "1", ",", "2", "\"", " ", "\n">>,
    \* 0,move,"1"\n
    <<"0", ",", "m", "o", "v", "e", ",", "\"", "1", "\"", "\n">>,
    \* 0,foo,"a"\n
    <<"0", ",", "f", "o", "o", ",", "\"", "a", "\"", "\n">>,
    \* 0,move,"²,1"\n
    <<"0", ",", "m", "o", "v", "e", ",", "\"", SUP2, ",", "1", "\"", "\n">>,
    \* 1,write,"a b"\n
    <<"1", ",", "w", "r", "i", "t", "e", ",", "\"", "a", " ", "b", "\"", "\n">>,
    \* 0,hold_mouse,"LEFT"\n
    <<"0", ",", "h", "o", "l", "d", "_", "m", "o", "u", "s", "e", ",", "\"", "L", "E", "F", "T", "\"", "\n">>,
    \* 0,release_mouse,"up"\n
    <<"0", ",", "r", "e", "l", "e", "a", "s", "e", "_", "m", "o", "u", "s", "e", ",", "\"", "u", "p", "\"", "\n">>,
    \* a,press,"a"\n
    <<"a", ",", "p", "r", "e", "s", "s", ",", "\"", "a", "\"", "\n">>,
    \* 0,press\n
    <<"0", ",", "p", "r", "e", "s", "s", "\n">>,
    \* ²,press,"a"\n
    <<SUP2, ",", "p", "r", "e", "s", "s", ",", "\"", "a", "\"", "\n">>,
    \* 2,press,"ctrl+c"\n
    <<"2", ",", "p", "r", "e", "s", "s", ",", "\"", "c", "t", "r", "l", "+", "c", "\"", "\n">>
}

\* The names execute is called with: two the files can define, one they cannot.
CallNames == {<<"A">>, <<"B">>, <<"C">>}

\* ------------------------------------------------------------ specification

Init ==
    /\ file \in [exists : BOOLEAN, remaining : 0..MaxLines]
    /\ pc = "start"
    /\ line_n = 0
    /\ line = <<>>
    /\ temp = <<>>
    /\ s_name = <<>>
    /\ scripts = <<>>
    /\ self_scripts = NoneValue
    /\ epc = "none"
    /\ script_name = <<>>
    /\ script = <<>>
    /\ idx = 0
    /\ result = "unset"
    /\ trace = <<>>
    /\ n_calls = 0
    /\ callers = [caller \in Callers |-> Waiting]
    /\ sent_inputs = <<>>

ReadFileLine ==
    /\ pc = "reading"
    /\ file.remaining > 0
    /\ \E l \in Lines : ReadLine(l)

Call ==
    /\ epc = "idle"
    /\ n_calls < MaxCalls
    /\ \E name \in CallNames : Execute(name)

Next ==
    \/ OpenFile
    \/ ReadFileLine
    \/ EndOfFile
    \/ Call
    \/ Sleep
    \/ Validate
    \/ Invoke

Spec == Init /\ [][Next]_vars

\* -------------------------------------------------- one line, every spelling

\* The characters the enumerated body lines are spelled with.
LineAlphabet == {"1", "a", " ", COMMA, QUOTE, SUP2}

\* Every line of at most MaxLineLen of these characters.
ShortLines == UNION {[1..n -> LineAlphabet] : n \in 0..MaxLineLen}

\* A file of two lines whose first line, ---A, has been read.
InitLine ==
    /\ file = [exists |-> TRUE, remaining |-> 1]
    /\ pc = "reading"
    /\ line_n = 1
    /\ line = <<"-", "-", "-", "A", "\n">>
    /\ temp = <<"-", "-", "-", "A">>
    /\ s_name = <<"A">>
    /\ scripts = (<<"A">> :> <<>>)
    /\ self_scripts = NoneValue
    /\ epc = "none"
    /\ script_name = <<>>
    /\ script = <<>>
    /\ idx = 0
    /\ result = "unset"
    /\ trace = <<>>
    /\ n_calls = 0
    /\ callers = [caller \in Callers |-> Waiting]
    /\ sent_inputs = <<>>

ReadShortLine ==
    /\ pc = "reading"
    /\ file.remaining > 0
    /\ \E l \in ShortLines : ReadLine(l)

NextLine ==
    \/ ReadShortLine
    \/ EndOfFile

SpecLine == InitLine /\ [][NextLine]_vars

\* The state SpecLine starts in is a state of Spec.
InitLineReached == InitLine

\* ------------------------------------------- one line, whitespace put in

\* Lines without whitespace outside their quotes: tags, a comment, command
\* lines (one with an escaped quote), and lines in error.
WsBase == {
    \* ---A
    <<"-", "-", "-", "A">>,
    \* ---B
    <<"-", "-", "-", "B">>,
    \* ---
    <<"-", "-", "-">>,
    \* #c
    <<"#", "c">>,
    \* 1,p,"a b"
    <<"1", ",", "p", ",", "\"", "a", " ", "b", "\"">>,
    \* 1,,\""
    <<"1", ",", ",", "\\", "\"", "\"">>,
    \* a,p,"b"
    <<"a", ",", "p", ",", "\"", "b", "\"">>,
    \* 1,p"a"
    <<"1", ",", "p", "\"", "a", "\"">>,
    \* "1",p,"a b"
    <<"\"", "1", "\"", ",", "p", ",", "\"", "a", " ", "b", "\"">>,
    \* 1,p,"a\"b c"
    <<"1", ",", "p", ",", "\"", "a", "\\", "\"", "b", " ", "c", "\"">>
}

\* The whitespace characters put in.
WsChars == {" ", "\t"}

\* The line l with the character c put in after its first k characters.
Insert(l, k, c) == SubSeq(l, 1, k) \o <<c>> \o SubSeq(l, k + 1, Len(l))

\* The lines of S with up to n whitespace characters put in anywhere.
RECURSIVE Spaced(_, _)
Spaced(S, n) ==
    IF n = 0 THEN S
    ELSE Spaced(S \cup UNION {{Insert(l, k, c) : k \in 0..Len(l), c \in WsChars} :
                                l \in S},
                n - 1)

WsLines == Spaced(WsBase, MaxSpaces)

\* A file of one line was opened, or a file of two lines whose first line,
\* ---A, has been read.
InitWs ==
    \/ InitLine
    \/ /\ file = [exists |-> TRUE, remaining |-> 1]
       /\ pc = "reading"
       /\ line_n = 0
       /\ line = <<>>
       /\ temp = <<>>
       /\ s_name = <<>>
       /\ scripts = <<>>
       /\ self_scripts = NoneValue
       /\ epc = "none"
       /\ script_name = <<>>
       /\ script = <<>>
       /\ idx = 0
       /\ result = "unset"
       /\ trace = <<>>
       /\ n_calls = 0
       /\ callers = [caller \in Callers |-> Waiting]
       /\ sent_inputs = <<>>

ReadWsLine ==
    /\ pc = "reading"
    /\ file.remaining > 0
    /\ \E l \in WsLines : ReadLine(l)

NextWs ==
    \/ ReadWsLine
    \/ EndOfFile

SpecWs == InitWs /\ [][NextWs]_vars

\* ------------------------------------------------ one command, every argument

\* The characters the parameters of press and write are spelled with: keys
\* of _win_key, two of them with the same code, the separator of a
\* combination, the space, and a character _win_key has no entry for.
KeyAlphabet == {"a", "A", "b", "+", " ", "-"}
KeyParams == UNION {[1..n -> KeyAlphabet] : n \in 0..MaxParamLen}

\* The characters the coordinates of move are spelled with.
CoordAlphabet == {"0", "1", "2", "3", "-", SUP2}
CoordStrings == UNION {[1..n -> CoordAlphabet] : n \in 0..MaxCoordLen}
MoveParams == {x \o <<COMMA>> \o y : x \in CoordStrings, y \in CoordStrings}

\* The upper-case letter of a lower-case one.
UpperOf(c) == CHOOSE u \in DOMAIN LowerMap : LowerMap[u] = c

\* A button name in every mix of upper and lower case.
CaseVariants(n) ==
    {[k \in 1..Len(n) |-> IF k \in U THEN UpperOf(n[k]) ELSE n[k]] :
        U \in SUBSET (1..Len(n))}

\* The parameters of hold_mouse and release_mouse: the three names in any
\* case, and keys that name no button.
ButtonParams ==
    CaseVariants(LEFT_NAME) \cup CaseVariants(RIGHT_NAME)
    \cup CaseVariants(MIDDLE_NAME)
    \cup {<<>>, <<"l">>, <<"u", "p">>, <<"l", "e", "f">>,
          <<"l", "e", "f", "t", "t">>, <<" ", "l", "e", "f", "t">>,
          <<"L", "E", "F", "T", "_", "B", "U", "T", "T", "O", "N">>}

\* The commands of the one-command scripts: name and quoted parameters.
ApiCommands ==
    ({PRESS, WRITE} \X KeyParams) \cup ({MOVE} \X MoveParams)
    \cup ({HOLD_MOUSE, RELEASE_MOUSE} \X ButtonParams)

\* The body line 0,<name>,"<parameters>" of a command.
ApiLine(c) ==
    <<"0", COMMA>> \o c[1] \o <<COMMA, QUOTE>> \o c[2] \o <<QUOTE, "\n">>

\* The executor built from the file of the two lines ---A and one command.
InitAPI ==
    \E c \in ApiCommands :
        LET t == _remove_obsolete_characters(QUOTE, whitespace, ApiLine(c))
            table == (<<"A">> :> <<<<ToInt(delay_str(t)), cmd_str(t), param_str(t)>>>>)
        IN  /\ file = [exists |-> TRUE, remaining |-> 0]
            /\ pc = "loaded"
            /\ line_n = 2
            /\ line = ApiLine(c)
            /\ temp = t
            /\ s_name = <<"A">>
            /\ scripts = table
            /\ self_scripts = Some(table)
            /\ epc = "idle"
            /\ script_name = <<>>
            /\ script = <<>>
            /\ idx = 0
            /\ result = "unset"
            /\ trace = <<>>
            /\ n_calls = 0
            /\ callers = [caller \in Callers |-> Waiting]
            /\ sent_inputs = <<>>

\* execute("A")
CallA == Execute(<<"A">>)

NextAPI ==
    \/ CallA
    \/ Sleep
    \/ Validate
    \/ Invoke

SpecAPI == InitAPI /\ [][NextAPI]_vars

\* ------------------------------------------------ callers on one executor

\* The lines of the files the shared executor is built from.
ConcLines == {
    \* ---A\n
    <<"-", "-", "-", "A", "\n">>,
    \* ---B\n
    <<"-", "-", "-", "B", "\n">>,
    \* 0,press,"a"\n
    <<"0", ",", "p", "r", "e", "s", "s", ",", "\"", "a", "\"", "\n">>,
    \* 1,press,"ctrl+c"\n
    <<"1", ",", "p", "r", "e", "s", "s", ",", "\"", "c", "t", "r", "l", "+", "c", "\"", "\n">>
}

ReadConcLine ==
    /\ pc = "reading"
    /\ file.remaining > 0
    /\ \E l \in ConcLines : ReadLine(l)

ConcCall == \E t \in Callers : \E name \in CallNames : ConcExecute(t, name)

ConcRun == \E t \in Callers : ConcStep(t)

NextConc ==
    \/ OpenFile
    \/ ReadConcLine
    \/ EndOfFile
    \/ ConcCall
    \/ ConcRun

SpecConc == Init /\ [][NextConc]_vars

\* ------------------------------------------------------------------ claims

\* The registry as the specification lists it.
Registry ==
    (PRESS :> 1) @@ (WRITE :> 1) @@ (MOVE :> 2)
    @@ (HOLD_MOUSE :> 1) @@ (RELEASE_MOUSE :> 1)

\* The number of fields of raw_params: its commas, plus one.
FieldCount(raw) == Cardinality({k \in 1..Len(raw) : raw[k] = COMMA}) + 1

\* A command the executor has to reject: unknown name, or wrong arity.
Rejected(command) ==
    \/ command[2] \notin DOMAIN Registry
    \/ FieldCount(command[3]) # Registry[command[2]]

\* The first rejected command of a script, 0 when it has none.
FirstRejected(s) ==
    IF \E k \in 1..Len(s) : Rejected(s[k])
    THEN Min({k \in 1..Len(s) : Rejected(s[k])})
    ELSE 0

\* The handler calls of the current execute, and the commands they are for.
Calls == SelectSeq(trace, LAMBDA e : e.kind = "call")
CallIdx == [j \in 1..Len(Calls) |-> Calls[j].idx]
Upto(n) == [j \in 1..n |-> j]

\* The fields joined by commas again.
RECURSIVE Join(_)
Join(fields) ==
    IF Len(fields) = 1 THEN fields[1]
    ELSE fields[1] \o <<COMMA>> \o Join(Tail(fields))

Last(s) == s[Len(s)]

\* C1: when command k is the first one with an unknown name or the wrong
\* number of fields, execute calls the handlers of commands 1..k-1 once each
\* in script order, calls no handler of command k or a later one, and
\* returns failure.
C1_HaltsAtFirstRejected ==
    LET k == FirstRejected(script)
    IN  k > 0 =>
          /\ \E m \in 0..(k - 1) : CallIdx = Upto(m)
          /\ \A j \in 1..Len(Calls) : Calls[j].name = script[j][2]
          /\ epc = "idle" => (result = "false" /\ CallIdx = Upto(k - 1))

\* C2: when every command has a registered name and the right number of
\* fields, execute calls the handler of every command once in script order
\* and returns success, whatever the handlers return.
C2_ValidScriptRunsToSuccess ==
    (epc = "idle" /\ idx > 0 /\ FirstRejected(script) = 0) =>
        (result = "true" /\ CallIdx = Upto(Len(script)))

\* C3: execute(name) returns failure, having slept for no delay and called no
\* handler, when the executor holds None, an empty table, or a table without
\* a script of that name.
C3_NoTableNoRun ==
    (/\ epc = "idle"
     /\ n_calls > 0
     /\ \/ self_scripts = NoneValue
        \/ Cardinality(DOMAIN self_scripts[1]) = 0
        \/ ~(script_name \in DOMAIN self_scripts[1]))
    => (result = "false" /\ trace = <<>>)

\* An execute with a name the loaded, non-empty table does not hold.
C3_Witness ==
    /\ epc = "idle"
    /\ n_calls > 0
    /\ self_scripts # NoneValue
    /\ \E n \in DOMAIN self_scripts[1] : Len(self_scripts[1][n]) > 0
    /\ script_name \notin DOMAIN self_scripts[1]
    /\ result = "false"

\* The trace from tr on is in order: the delay of command i is slept while no
\* command is in progress, its handler is called right after, input events
\* are sent only between a handler's call and its return, and the delay of
\* command i + 1 is slept after the handler of command i returned.
RECURSIVE InOrder(_, _, _)
InOrder(tr, phase, i) ==
    IF tr = <<>> THEN TRUE
    ELSE LET e == Head(tr)
         IN  CASE e.kind = "sleep" ->
                    /\ phase = "ready"
                    /\ e.idx = i
                    /\ e.x = script[i][1]
                    /\ InOrder(Tail(tr), "slept", i)
               [] e.kind = "call" ->
                    /\ phase = "slept"
                    /\ e.idx = i
                    /\ InOrder(Tail(tr), "running", i)
               [] e.kind = "ret" ->
                    /\ phase = "running"
                    /\ e.idx = i
                    /\ InOrder(Tail(tr), "ready", i + 1)
               [] OTHER ->
                    /\ phase = "running"
                    /\ InOrder(Tail(tr), "running", i)

\* C4: for every command reached, its delay is slept before its name and
\* arity are validated and before its handler is called; the handler of
\* command i has returned before the delay of command i + 1 is slept; nothing
\* is slept after the last handler; no two commands overlap.
C4_DelayThenValidateThenCall ==
    /\ InOrder(trace, "ready", 1)
    /\ epc \in {"check", "call"} =>
         (Last(trace).kind = "sleep" /\ Last(trace).idx = idx)
    /\ (epc = "idle" /\ idx > 0 /\ result = "false") =>
         (Last(trace).kind = "sleep" /\ Last(trace).idx = idx)
    /\ (epc = "idle" /\ idx > 0 /\ result = "true") =>
         (trace = <<>> \/ Last(trace).kind = "ret")

\* A finished run of two commands or more, one with a delay, one that sent
\* input events.
C4_Witness ==
    /\ epc = "idle"
    /\ result = "true"
    /\ Len(Calls) >= 2
    /\ \E j \in 1..Len(trace) : trace[j].kind = "sleep" /\ trace[j].x > 0
    /\ \E j \in 1..Len(trace) : trace[j].kind = "key_hold"

\* The position (1-based) of the first c after position from, 0 when there is
\* none or from is 0 itself, that is, when what precedes is missing.
FirstAfter(t, c, from, missing) ==
    IF missing \/ ~(\E k \in (from + 1)..Len(t) : t[k] = c) THEN 0
    ELSE CHOOSE k \in (from + 1)..Len(t) :
           t[k] = c /\ \A j \in (from + 1)..(k - 1) : t[j] # c

\* The first comma, the next comma, the first quote after it, the next quote.
I1(t) == FirstAfter(t, COMMA, 0, FALSE)
I2(t) == FirstAfter(t, COMMA, I1(t), I1(t) = 0)
Q1(t) == FirstAfter(t, QUOTE, I2(t), I2(t) = 0)
Q2(t) == FirstAfter(t, QUOTE, Q1(t), Q1(t) = 0)
AllFound(t) == Q2(t) > 0

\* The delay field: what stands before the first comma.
DelayField(t) == IF I1(t) = 0 THEN t ELSE SubSeq(t, 1, I1(t) - 1)

\* One decimal digit or more, and nothing else.
DecimalField(f) == Len(f) > 0 /\ \A k \in 1..Len(f) : f[k] \in DecimalDigits

\* The decimal value of a field of decimal digits.
RECURSIVE DecimalValue(_)
DecimalValue(f) ==
    IF f = <<>> THEN 0
    ELSE 10 * DecimalValue(SubSeq(f, 1, Len(f) - 1)) + DigitValue(f[Len(f)])

StartsWithTag(t) == Len(t) >= 3 /\ SubSeq(t, 1, 3) = <<"-", "-", "-">>

\* A line was read, and what it is after the whitespace was stripped.
LineRead == pc = "reading" /\ line_n' = line_n + 1
TagRead == LineRead /\ StartsWithTag(temp')
BodyRead ==
    /\ LineRead
    /\ s_name # <<>>
    /\ Len(temp') > 0
    /\ temp'[1] \notin {"#", "%"}
    /\ ~StartsWithTag(temp')

\* The line read is in error: no script name, a name the table holds, field
\* boundaries that cannot be resolved, a delay that is no decimal number.
ParseError ==
    \/ /\ TagRead
       /\ s_name = <<>>
       /\ \/ Len(temp') = 3
          \/ SubSeq(temp', 4, Len(temp')) \in DOMAIN scripts
    \/ /\ BodyRead
       /\ \/ ~AllFound(temp')
          \/ ~DecimalField(DelayField(temp'))

\* C5: a line in error ends the parse with no table at all, however many
\* scripts were parsed before it, and no table is returned later on.
C5_AllOrNothing ==
    [][/\ ParseError => (pc' \in {"failed", "raised"} /\ self_scripts' = NoneValue)
       /\ pc \in {"failed", "raised"} => self_scripts' = NoneValue]_vars

\* The parse failed after a whole script with a command was parsed.
C5_Witness ==
    /\ pc = "failed"
    /\ self_scripts = NoneValue
    /\ epc = "idle"
    /\ \E n \in DOMAIN scripts : n # s_name /\ Len(scripts[n]) > 0

\* C6: an opening tag whose stripped name is the name of a script of the
\* table fails the parse and yields no table; a tag line that opens a script
\* leaves the scripts of the table as they are.
C6_DuplicateNameFails ==
    [][(TagRead /\ s_name = <<>>) =>
         /\ SubSeq(temp', 4, Len(temp')) \in DOMAIN scripts =>
              (pc' = "failed" /\ self_scripts' = NoneValue /\ scripts' = scripts)
         /\ pc' = "reading" =>
              /\ \A n \in DOMAIN scripts : scripts'[n] = scripts[n]
              /\ Cardinality(DOMAIN scripts') = Cardinality(DOMAIN scripts) + 1]_vars

\* The parse failed at a tag, written with whitespace, that names a script
\* the table holds, with its commands.
C6_Witness ==
    /\ pc = "failed"
    /\ StartsWithTag(temp)
    /\ Len(line) > Len(temp) + 1
    /\ s_name = SubSeq(temp, 4, Len(temp))
    /\ s_name \in DOMAIN scripts
    /\ Len(scripts[s_name]) > 0

\* C7: for a body line of an open script, after stripping: when the first
\* comma, the next comma, the first quote after it and the next quote are all
\* there and the delay field is a decimal number, exactly the triple (delay
\* value, text between the commas, text between the quotes) is appended to
\* the open script; when one of the four is missing the parse fails.
C7_BodyLineTriple ==
    [][BodyRead =>
         LET t == temp'
         IN  /\ (AllFound(t) /\ DecimalField(DelayField(t))) =>
                  /\ pc' = "reading"
                  /\ s_name' = s_name
                  /\ scripts' = [scripts EXCEPT ![s_name] =
                        Append(@, <<DecimalValue(DelayField(t)),
                                    SubSeq(t, I1(t) + 1, I2(t) - 1),
                                    SubSeq(t, Q1(t) + 1, Q2(t) - 1)>>)]
             /\ ~AllFound(t) =>
                  (pc' = "failed" /\ scripts' = scripts /\ self_scripts' = NoneValue)]_vars

\* A body line was appended whose parameters hold a comma.
C7_Witness ==
    /\ pc = "reading"
    /\ s_name # <<>>
    /\ Len(scripts[s_name]) = 1
    /\ \E k \in 1..Len(scripts[s_name][1][3]) : scripts[s_name][1][3][k] = COMMA
    /\ AllFound(temp)

\* C8: every delay in the table is a natural number, the decimal value of its
\* delay field; a body line whose delay field is empty or holds a character
\* that is no decimal digit fails the whole parse.
C8_DelayIsDecimal ==
    [][BodyRead =>
         /\ ~DecimalField(DelayField(temp')) =>
              (pc' \in {"failed", "raised"} /\ self_scripts' = NoneValue)
         /\ pc' = "reading" =>
              /\ Len(scripts'[s_name]) = Len(scripts[s_name]) + 1
              /\ Last(scripts'[s_name])[1] = DecimalValue(DelayField(temp'))
         /\ \A n \in DOMAIN scripts' : \A k \in 1..Len(scripts'[n]) :
              scripts'[n][k][1] \in Nat]_vars

\* A command was appended whose delay field has two digits.
C8_Witness ==
    /\ pc = "reading"
    /\ s_name # <<>>
    /\ Len(scripts[s_name]) = 1
    /\ scripts[s_name][1][1] = 11
    /\ DelayField(temp) = <<"1", "1">>

\* C9: while no script is open, a line that starts with --- fails the parse
\* when nothing follows the ---, and otherwise opens the script named by the
\* rest of the line (unless the table holds that name); while a script is
\* open, a line that starts with --- closes it, whatever follows the ---, and
\* leaves the table as it is.
C9_TagStateMachine ==
    [][TagRead =>
         LET rest == SubSeq(temp', 4, Len(temp'))
         IN  /\ (s_name = <<>> /\ rest = <<>>) => pc' = "failed"
             /\ (s_name = <<>> /\ rest # <<>> /\ rest \notin DOMAIN scripts) =>
                  /\ pc' = "reading"
                  /\ s_name' = rest
                  /\ DOMAIN scripts' = (DOMAIN scripts) \cup {rest}
                  /\ scripts'[rest] = <<>>
             /\ s_name # <<>> =>
                  /\ pc' = "reading"
                  /\ s_name' = <<>>
                  /\ scripts' = scripts]_vars

\* A script was closed by a tag with a name after it, and the table holds no
\* script of that name.
C9_Witness ==
    /\ pc = "reading"
    /\ s_name = <<>>
    /\ StartsWithTag(temp)
    /\ Len(temp) > 3
    /\ DOMAIN scripts # {}
    /\ SubSeq(temp, 4, Len(temp)) \notin DOMAIN scripts

\* C10: the registry is the five entries press 1, write 1, move 2, hold_mouse
\* 1, release_mouse 1; the handler of a command that is reached is called if
\* and only if its name is one of the five and the number of its fields is
\* the registered one; the handler gets these fields, in order.
C10_ArityAtDispatch ==
    /\ \A j \in 1..Len(Calls) :
         LET e == Calls[j]
             command == script[e.idx]
         IN  /\ ~Rejected(command)
             /\ e.name = command[2]
             /\ Len(e.args) = Registry[command[2]]
             /\ Join(e.args) = command[3]
             /\ \A a \in 1..Len(e.args) : \A k \in 1..Len(e.args[a]) :
                  e.args[a][k] # COMMA
    /\ epc = "call" => ~Rejected(script[idx])
    /\ (epc = "idle" /\ idx > 0 /\ result = "false") =>
         /\ Rejected(script[idx])
         /\ \A j \in 1..Len(Calls) : Calls[j].idx # idx
    /\ epc \in {"loop", "check", "call"} => CallIdx = Upto(idx - 1)
    /\ (epc = "idle" /\ idx > 0 /\ result = "true") => CallIdx = Upto(Len(script))

\* The handler of move was called with the two fields of "1,2".
C10_Witness ==
    \E j \in 1..Len(Calls) :
        /\ Calls[j].name = MOVE
        /\ Calls[j].args = <<<<"1">>, <<"2">>>>
        /\ script[Calls[j].idx][3] = <<"1", COMMA, "2">>

\* --------------------------------------------------- claims on the handlers

\* The handler of command `name` was called for the first command of the
\* script and has ended.
Handled(name) ==
    /\ Len(trace) >= 2
    /\ trace[2].kind = "call"
    /\ trace[2].idx = 1
    /\ trace[2].name = name

\* The k-th argument the handler was called with.
Arg(k) == trace[2].args[k]

\* What the handler returned; "raised" when an exception left it.
Returned == IF Last(trace).kind = "ret" THEN Last(trace).val ELSE "raised"

\* The input events the backend sent, the waits of the backend among them.
Sent == SelectSeq(trace, LAMBDA e : e.kind \notin {"sleep", "call", "ret"})
Holds == SelectSeq(trace, LAMBDA e : e.kind = "key_hold")
Releases == SelectSeq(trace, LAMBDA e : e.kind = "key_release")

\* The text of seq between its '+' signs, spaces left out: its identifiers.
RECURSIVE Identifiers(_, _, _)
Identifiers(seq, cur, out) ==
    IF seq = <<>> THEN Append(out, cur)
    ELSE IF Head(seq) = "+" THEN Identifiers(Tail(seq), <<>>, Append(out, cur))
    ELSE IF Head(seq) = " " THEN Identifiers(Tail(seq), cur, out)
    ELSE Identifiers(Tail(seq), Append(cur, Head(seq)), out)

Ids == Identifiers(Arg(1), <<>>, <<>>)
Known(id) == id \in DOMAIN _win_key

\* C11: a successful press(seq) holds the keys its identifiers resolve to in
\* the order given, then releases the same keys in the reverse order, every
\* hold before every release, and every key held is released exactly once.
C11_HoldThenReleaseReversed ==
    (Handled(PRESS) /\ Returned = "true") =>
        LET n == Len(Ids)
        IN  /\ Len(Holds) = n
            /\ Len(Releases) = n
            /\ \A k \in 1..n : Known(Ids[k]) /\ Holds[k].x = _win_key[Ids[k]]
            /\ \A k \in 1..n : Releases[k].x = Holds[n + 1 - k].x
            /\ \A i, j \in 1..Len(Sent) :
                 (Sent[i].kind = "key_hold" /\ Sent[j].kind = "key_release") => i < j
            /\ \A k \in 1..n :
                 Cardinality({j \in 1..n : Releases[j].x = Holds[k].x}) = 1

\* A press of two different keys, written with a space, that succeeded.
C11_Witness ==
    /\ Handled(PRESS)
    /\ Returned = "true"
    /\ Len(Holds) = 2
    /\ Holds[1].x # Holds[2].x
    /\ Len(Releases) = 2
    /\ \E k \in 1..Len(Arg(1)) : Arg(1)[k] = " "

\* C12: press(seq) fails when an identifier of the combination is unknown or
\* when two of them are the same or resolve to the same key, wherever they
\* stand; a press that fails sends no hold and no release event.
C12_UnknownOrRepeatedFails ==
    Handled(PRESS) =>
        /\ (\E k \in 1..Len(Ids) : ~Known(Ids[k])) => Returned = "false"
        /\ (\E i, j \in 1..Len(Ids) :
              /\ i < j
              /\ \/ Ids[i] = Ids[j]
                 \/ Known(Ids[i]) /\ Known(Ids[j]) /\ _win_key[Ids[i]] = _win_key[Ids[j]])
           => Returned = "false"
        /\ Returned = "false" => Sent = <<>>

\* A press that failed at its last identifier, a second name of a key that
\* an earlier identifier resolved to.
C12_Witness ==
    /\ Handled(PRESS)
    /\ Returned = "false"
    /\ Len(Ids) >= 2
    /\ \A k \in 1..Len(Ids) : Known(Ids[k])
    /\ Ids[1] # Ids[Len(Ids)]
    /\ _win_key[Ids[1]] = _win_key[Ids[Len(Ids)]]

\* The characters of seq up to the first one without a key mapping.
Writable(seq) ==
    LET bad == {k \in 1..Len(seq) : ~Known(<<seq[k]>>)}
    IN  IF bad = {} THEN Len(seq) ELSE Min(bad) - 1

\* C13: write(seq) presses (hold, wait, release) the characters of seq one at
\* a time in order, up to the first character without a key mapping, where it
\* returns failure and presses nothing more; it returns success exactly when
\* every character was pressed.
C13_WriteStopsAtFirstUnknown ==
    Handled(WRITE) =>
        LET seq == Arg(1)
            m == Writable(seq)
        IN  /\ Len(Sent) = 3 * m
            /\ \A k \in 1..m :
                 /\ Sent[3 * k - 2] = KeyEv("key_hold", _win_key[<<seq[k]>>])
                 /\ Sent[3 * k - 1].kind = "wait"
                 /\ Sent[3 * k] = KeyEv("key_release", _win_key[<<seq[k]>>])
            /\ Returned = (IF m = Len(seq) THEN "true" ELSE "false")

\* A write that pressed two characters, failed at the third, and left a
\* fourth character with a key mapping alone.
C13_Witness ==
    /\ Handled(WRITE)
    /\ Returned = "false"
    /\ Len(Holds) = 2
    /\ Len(Arg(1)) = 4
    /\ Known(<<Arg(1)[4]>>)

\* The pixels of a display of width w and height h.
OnDisplay(x, y, w, h) == x \in 0..(w - 1) /\ y \in 0..(h - 1)

\* C14: move(x, y) with strings of decimal digits sends exactly one move
\* event and succeeds when (x, y) is a pixel of the display, one of
\* 0..W-1 by 0..H-1, and fails, sending no event, when it is not.
C14_MoveInsideDisplayOnly ==
    (Handled(MOVE) /\ DecimalField(Arg(1)) /\ DecimalField(Arg(2))) =>
        IF OnDisplay(DecimalValue(Arg(1)), DecimalValue(Arg(2)),
                     _SCREEN_WIDTH_PX, _SCREEN_HEIGHT_PX)
        THEN /\ Returned = "true"
             /\ Len(Sent) = 1
             /\ Sent[1].kind = "mouse_move"
        ELSE /\ Returned = "false"
             /\ Sent = <<>>

\* C15: move(x, y) reports failure (it returns, and what it returns is not
\* success) and sends no event when x or y is not a string of one decimal
\* digit or more.
C15_MoveRejectsNonDecimal ==
    (Handled(MOVE) /\ (~DecimalField(Arg(1)) \/ ~DecimalField(Arg(2)))) =>
        /\ Returned \in {"false", "none"}
        /\ Sent = <<>>

\* key is name, letter by letter, in any letter case.
SameLetters(key, name) ==
    /\ Len(key) = Len(name)
    /\ \A k \in 1..Len(name) :
         \/ key[k] = name[k]
         \/ key[k] \in DOMAIN LowerMap /\ LowerMap[key[k]] = name[k]

\* The button a key names, "" when it names none.
ButtonOf(key) ==
    IF SameLetters(key, LEFT_NAME) THEN "LEFT_BUTTON"
    ELSE IF SameLetters(key, RIGHT_NAME) THEN "RIGHT_BUTTON"
    ELSE IF SameLetters(key, MIDDLE_NAME) THEN "MIDDLE_BUTTON"
    ELSE ""

\* C16: hold_mouse(key) and release_mouse(key) send exactly one press,
\* respectively release, event for the button key names when key is left,
\* right or middle in any letter case, and succeed; for every other key they
\* return failure and send no event.
C16_MouseButtonByName ==
    /\ Handled(HOLD_MOUSE) =>
         IF ButtonOf(Arg(1)) # ""
         THEN Sent = <<MouseEv("mouse_hold", ButtonOf(Arg(1)))>> /\ Returned = "true"
         ELSE Sent = <<>> /\ Returned = "false"
    /\ Handled(RELEASE_MOUSE) =>
         IF ButtonOf(Arg(1)) # ""
         THEN Sent = <<MouseEv("mouse_release", ButtonOf(Arg(1)))>> /\ Returned = "true"
         ELSE Sent = <<>> /\ Returned = "false"

\* The middle button was released by a key written in mixed case.
C16_Witness ==
    /\ Handled(RELEASE_MOUSE)
    /\ Returned = "true"
    /\ Sent = <<MouseEv("mouse_release", "MIDDLE_BUTTON")>>
    /\ Arg(1)[1] = "M"
    /\ Arg(1)[2] = "i"

\* ----------------------------------------------------- claims on the reader

\* load_scripts returned (it did not raise): the executor exists.
Returned_load == epc # "none"

\* C17: load_scripts returns None, not a table, when the file does not exist
\* and when the file is empty, that is, holds no script.
C17_NoneForMissingOrEmpty ==
    (Returned_load /\ (~file.exists \/ DOMAIN scripts = {})) =>
        self_scripts = NoneValue

\* The line l from position i on with the whitespace outside quoted spans
\* removed; quoted is toggled by every quote that no backslash precedes, the
\* first character of the line included.
RECURSIVE StrippedFrom(_, _, _)
StrippedFrom(l, i, quoted) ==
    IF i > Len(l) THEN <<>>
    ELSE LET q == IF l[i] = QUOTE /\ (i = 1 \/ l[i - 1] # BACKSLASH)
                  THEN ~quoted ELSE quoted
         IN  IF l[i] \in whitespace /\ ~q
             THEN StrippedFrom(l, i + 1, q)
             ELSE <<l[i]>> \o StrippedFrom(l, i + 1, q)

\* C18: the stripper removes every whitespace character outside the quoted
\* spans of a line and keeps every other character in order, the quoted state
\* being toggled by every quote not directly preceded by a backslash, the
\* quote that is the first character of the line included.
C18_StripsOutsideQuotedSpans ==
    line_n > 0 => temp = StrippedFrom(line, 1, FALSE)

\* Position k of the line l is inside a quoted span: the quotes before it
\* that no backslash precedes are odd in number.
InQuotes(l, k) ==
    Cardinality({j \in 1..(k - 1) :
                   l[j] = QUOTE /\ (j = 1 \/ l[j - 1] # BACKSLASH)}) % 2 = 1

\* The positions of the whitespace of l outside its quoted spans.
OutsideWs(l) == {k \in 1..Len(l) : l[k] \in whitespace /\ ~InQuotes(l, k)}

\* The line l without its k-th character.
Delete(l, k) == SubSeq(l, 1, k - 1) \o SubSeq(l, k + 1, Len(l))

\* The step taken has the outcome r: a failure both, or the same table and
\* the same open script both.
SameOutcome(r) ==
    \/ r.pc # "reading" /\ pc' # "reading"
    \/ /\ r.pc = "reading"
       /\ pc' = "reading"
       /\ r.scripts = scripts'
       /\ r.s_name = s_name'

SplitsEscape(l, k) ==
    /\ 1 < k
    /\ k < Len(l)
    /\ l[k - 1] = BACKSLASH
    /\ l[k + 1] = QUOTE

C20_OpenScriptAtEndOfInput ==
    [][/\ (pc = "reading" /\ file.remaining = 0 /\ s_name # <<>>
           /\ pc' # "reading") =>
            /\ pc' = "loaded"
            /\ s_name \in DOMAIN scripts
            /\ self_scripts' = Some(scripts)
       /\ (pc = "loaded" /\ s_name # <<>> /\ n_calls' = n_calls + 1
           /\ script_name' = s_name) =>
            /\ epc' = "loop"
            /\ script' = scripts[s_name]
            /\ result' = "unset"
       /\ (pc = "loaded" /\ s_name # <<>> /\ script_name = s_name
           /\ epc = "loop" /\ idx > Len(script)) =>
            result' = "true"]_vars

\* The input ended inside a script with a command, and execute ran it to
\* its end.
C20_Witness ==
    /\ pc = "loaded"
    /\ s_name # <<>>
    /\ Len(scripts[s_name]) > 0
    /\ script_name = s_name
    /\ epc = "idle"
    /\ result = "true"
    /\ Len(Calls) = Len(scripts[s_name])

\* C21: while no script is open, a line that does not begin with --- (after
\* stripping) is not consulted: a command line, a malformed line or a
\* comment, it changes no script, opens none and causes no parse error.
C21_OutsideLinesIgnored ==
    [][(LineRead /\ s_name = <<>> /\ ~StartsWithTag(temp')) =>
         /\ pc' = "reading"
         /\ scripts' = scripts
         /\ s_name' = <<>>
         /\ self_scripts' = self_scripts]_vars

\* A line with a delay that is no number was read after a script with a
\* command was closed, and the parse went on.
C21_Witness ==
    /\ pc = "reading"
    /\ s_name = <<>>
    /\ \E n \in DOMAIN scripts : Len(scripts[n]) > 0
    /\ Len(temp) > 0
    /\ temp[1] = "a"

\* A line to ignore: empty after stripping, or a first character # or %.
Ignorable(t) == Len(t) = 0 \/ t[1] \in {"#", "%"}

\* C22: inside an open script a line that is empty after stripping or starts
\* with # or % changes neither the table nor the open script and causes no
\* error; every other body line that is accepted adds one command at the end
\* of the open script and changes nothing else, so that the commands of a
\* script are its non-ignored body lines in source order.
C22_IgnoredLinesInsideScript ==
    [][(LineRead /\ s_name # <<>>) =>
         /\ Ignorable(temp') =>
              /\ pc' = "reading"
              /\ scripts' = scripts
              /\ s_name' = s_name
         /\ (~Ignorable(temp') /\ ~StartsWithTag(temp') /\ pc' = "reading") =>
              /\ s_name' = s_name
              /\ DOMAIN scripts' = DOMAIN scripts
              /\ \A n \in DOMAIN scripts : n # s_name => scripts'[n] = scripts[n]
              /\ Len(scripts'[s_name]) = Len(scripts[s_name]) + 1
              /\ SubSeq(scripts'[s_name], 1, Len(scripts[s_name])) = scripts[s_name]
              /\ Last(scripts'[s_name])[2] = SubSeq(temp', I1(temp') + 1, I2(temp') - 1)]_vars

\* A line starting with % was read inside a script that holds a command, and
\* the script is open still.
C22_Witness ==
    /\ pc = "reading"
    /\ s_name # <<>>
    /\ Len(scripts[s_name]) > 0
    /\ Len(temp) > 0
    /\ temp[1] = "%"

\* The fields of a parameter text: what stands between its commas.
RECURSIVE FieldsOf(_)
FieldsOf(p) ==
    IF \A k \in 1..Len(p) : p[k] # COMMA THEN <<p>>
    ELSE LET c == Min({k \in 1..Len(p) : p[k] = COMMA})
         IN  <<SubSeq(p, 1, c - 1)>> \o FieldsOf(SubSeq(p, c + 1, Len(p)))

\* The quoted span of a command line as it is written: the text between the
\* first quote after the second comma and the next quote.
WrittenSpan(l) == SubSeq(l, Q1(l) + 1, Q2(l) - 1)

\* C23: for a command line the parser accepts, splitting the captured
\* raw_params on ',' gives the parameters written in the quoted span of the
\* line character for character, the whitespace inside the quotes included.
C23_ParamsRoundTrip ==
    [][(BodyRead /\ pc' = "reading") =>
         Split(Last(scripts'[s_name])[3], COMMA) = FieldsOf(WrittenSpan(line'))]_vars

\* C26: in the table no raw_params holds a quote and no name a comma, and
\* every delay is a number; the delay field of an accepted line holds no
\* comma, and its raw_params are the text from its opening quote up to the
\* first quote after it, a quote that a backslash stands before included.
C26_SpanEndsAtFirstQuote ==
    [][LineRead =>
         /\ \A n \in DOMAIN scripts' : \A k \in 1..Len(scripts'[n]) :
              LET command == scripts'[n][k]
              IN  /\ command[1] \in Nat
                  /\ \A j \in 1..Len(command[2]) : command[2][j] # COMMA
                  /\ \A j \in 1..Len(command[3]) : command[3][j] # QUOTE
         /\ (BodyRead /\ pc' = "reading") =>
              LET t == temp'
              IN  /\ \A j \in 1..Len(DelayField(t)) : DelayField(t)[j] # COMMA
                  /\ Last(scripts'[s_name])[3] = SubSeq(t, Q1(t) + 1, Q2(t) - 1)]_vars

\* A command whose raw_params end with the backslash of an escaped quote,
\* with more text and a quote after it on the line.
C26_Witness ==
    /\ pc = "reading"
    /\ s_name # <<>>
    /\ Len(scripts[s_name]) = 1
    /\ Len(scripts[s_name][1][3]) > 0
    /\ Last(scripts[s_name][1][3]) = BACKSLASH
    /\ Last(temp) = QUOTE
    /\ Len(temp) > Q2(temp) + 1

\* C24: execute never changes the Script Table. From the return of
\* load_scripts on, through every step of every call and whatever the call
\* returns, the table of the executor is the table the load returned; a call
\* walks the commands the table holds for its name, so a second call of the
\* same name walks the commands the first one walked.
C24_ExecuteKeepsTable ==
    [][(epc # "none") =>
         /\ self_scripts' = self_scripts
         /\ pc = "loaded" => self_scripts' = Some(scripts')
         /\ (epc = "idle" /\ epc' = "loop") => script' = self_scripts[1][script_name']
         /\ (epc = "idle" /\ n_calls >= 1 /\ n_calls' = n_calls + 1
             /\ script_name' = script_name) => script' = script]_vars

\* A second call has run to success, handlers called, and the commands it
\* walked are those the table held right after the load.
C24_Witness ==
    /\ n_calls = 2
    /\ epc = "idle"
    /\ result = "true"
    /\ Len(Calls) >= 1
    /\ script = self_scripts[1][script_name]
    /\ script = scripts[script_name]

\* ------------------------------------------ claims on concurrent callers

\* execute, taken as a whole, does what its steps do.
ExecuteAgrees ==
    (epc = "idle" /\ n_calls >= 1) =>
        /\ trace = execute(script_name).events
        /\ result = execute(script_name).ret

\* What caller t has done so far, in order.
SentBy(t) ==
    LET mine == SelectSeq(sent_inputs, LAMBDA e : e.caller = t)
    IN  [k \in 1..Len(mine) |-> mine[k].ev]

\* Caller t holds key code at position i of sent_inputs: it has sent the
\* key's hold at or before i and not its release since.
HeldAt(t, code, i) ==
    \E h \in 1..i :
        /\ sent_inputs[h].caller = t
        /\ sent_inputs[h].ev.kind = "key_hold"
        /\ sent_inputs[h].ev.x = code
        /\ \A k \in (h + 1)..i :
             ~(sent_inputs[k].caller = t /\ sent_inputs[k].ev.kind = "key_release"
               /\ sent_inputs[k].ev.x = code)

\* C25: the calls of concurrent callers are not coordinated. A call that is
\* under way can always take its next step, whatever the calls of the other
\* callers have reached; each caller's own steps come in the order of its
\* script, and apart from that the steps of the callers interleave freely.
C25_CallersNotCoordinated ==
    \A t \in Callers :
        /\ (callers[t].cpc = "run"
            /\ (callers[t].pos > Len(callers[t].plan) \/ Len(sent_inputs) < MaxSent))
              => ENABLED ConcStep(t)
        /\ callers[t].cpc # "idle" =>
              SentBy(t) = SubSeq(callers[t].plan, 1, callers[t].pos - 1)

\* One caller's press holds a key, and while it is held another caller's
\* call sends a key event of its own.
C25_Witness ==
    \E i \in DOMAIN sent_inputs : \E j \in DOMAIN sent_inputs :
        /\ i < j
        /\ sent_inputs[i].ev.kind = "key_hold"
        /\ sent_inputs[j].caller # sent_inputs[i].caller
        /\ sent_inputs[j].ev.kind \in {"key_hold", "key_release"}
        /\ HeldAt(sent_inputs[i].caller, sent_inputs[i].ev.x, j)
        /\ callers[sent_inputs[i].caller].cpc = "run"
        /\ callers[sent_inputs[j].caller].cpc = "run"

====
